---- MODULE Spec2Model ----
(***************************************************************************)
(* A model of vfb-tldextract (src/src/main.rs): the public-suffix loader,  *)
(* the domain extractor, the zero-copy record parser, the IPv4 encoder and *)
(* the per-line driver loop of main.                                       *)
(*                                                                         *)
(* Byte strings (&str, &[u8]) are TLA+ strings; offsets are 0-based as in  *)
(* the Rust code: Slice(s, a, b) is &s[a..b] and At(s, i) is s[i].  All    *)
(* inputs are ASCII, so byte offsets and character offsets coincide.       *)
(***************************************************************************)
EXTENDS Integers, Sequences, FiniteSets, TLC

VARIABLES
    pc,              \* position of the running function / of main
    tld_set,         \* main: tld_set (HashSet<String>)
    host,            \* domain_for: host
    domain,          \* domain_for: returned Option<&str>
    buf,             \* Parser.buf
    sample,          \* how buf was made: its shape and, for an object, its 2nd and 4th values
    rdns,            \* Parser::parse: its outcome
    addr,            \* ipv4_to_u32: s
    ip,              \* ipv4_to_u32: its outcome
    overflow_checks, \* build profile: TRUE for debug (overflow panics), FALSE for release (wraps)
    consumed,        \* main: the lines read_line has returned so far, in order
    handed,          \* main: the lines for which a Parser was built, in order
    stdout,          \* main: the primary output, one string per writeln!
    rejected,        \* main: what was written to the rejects writer, one string per write
    stderr_lines,    \* main: the lines reported by "cannot deserialize this line"
    summary,         \* main: the final summary, once printed
    num_lines,       \* main: num_lines
    num_rejected     \* main: num_rejected

vars == <<pc, tld_set, host, domain, buf, sample, rdns, addr, ip, overflow_checks,
          consumed, handed, stdout, rejected, stderr_lines, summary,
          num_lines, num_rejected>>

---------------------------------------------------------------------------
(* Bounds of the model.                                                    *)

MaxHostLen == 5
MaxTldLines == 2
MaxGap == 2
MaxShort == 4
MaxGroups == 5
MaxLines == 3

---------------------------------------------------------------------------
(* Rust values.                                                            *)

\* Option<T>, and the two ways a call can fail to return: a panic (the process
\* aborts) and a loop that does not end
None == [kind |-> "None"]
Some(v) == [kind |-> "Some", val |-> v]
Panic == [kind |-> "panic"]
Hang == [kind |-> "hang"]
IsSome(o) == o.kind = "Some"

\* &s[a..b], 0-based and half-open
Slice(s, a, b) == SubSeq(s, a + 1, b)

\* s[i], 0-based, as a one-byte string
At(s, i) == SubSeq(s, i + 1, i + 1)

\* every string over alphabet of length at most n
RECURSIVE StringsUpTo(_, _)
StringsUpTo(alphabet, n) ==
    IF n = 0 THEN {""}
    ELSE LET shorter == StringsUpTo(alphabet, n - 1)
         IN  shorter \cup {s \o c : s \in shorter, c \in alphabet}

\* every sequence over S of length at most n
RECURSIVE SeqsUpTo(_, _)
SeqsUpTo(S, n) ==
    IF n = 0 THEN {<<>>}
    ELSE LET shorter == SeqsUpTo(S, n - 1)
         IN  shorter \cup {Append(q, x) : q \in shorter, x \in S}

---------------------------------------------------------------------------
(* parse_tld_file                                                          *)

\* the ASCII bytes str::trim removes (char::is_whitespace): space and U+0009 to
\* U+000D, that is tab, line feed, vertical tab (written raw, TLA+ has no escape
\* for it), form feed and carriage return
VerticalTab == ""
TrimWhite == {" ", "\t", "\n", VerticalTab, "\f", "\r"}

\* line.trim().is_empty()
trim_is_empty(line) == \A i \in 0..(Len(line) - 1) : At(line, i) \in TrimWhite

\* line.starts_with("//")
starts_with_comment(line) == Len(line) >= 2 /\ Slice(line, 0, 2) = "//"

\* parse_tld_file over the lines rdr.lines() yields (line terminators removed)
parse_tld_file(lines) ==
    {lines[i] : i \in {j \in 1..Len(lines) :
                         ~(trim_is_empty(lines[j]) \/ starts_with_comment(lines[j]))}}

---------------------------------------------------------------------------
(* rfind_from and domain_for                                               *)

\* (&s[..offset]).rfind(c)
rfind_from(s, c, offset) ==
    LET hits == {i \in 0..(offset - 1) : At(s, i) = c}
    IN  IF hits = {} THEN None
        ELSE Some(CHOOSE i \in hits : \A j \in hits : j <= i)

\* a variant of suffix_candidate that is off by one: &host[idx..], the dot included
suffix_candidate_from_dot(h, idx) == Slice(h, idx, Len(h))

\* let s = &host[idx + 1..]: the text tested against the suffix set
suffix_candidate(h, idx) == Slice(h, idx + 1, Len(h))

\* the while-let loop of domain_for: the frontier it ends with
RECURSIVE scan_frontier(_, _, _)
scan_frontier(h, set, frontier) ==
    LET found == rfind_from(h, ".", frontier)
    IN  IF IsSome(found) /\ suffix_candidate(h, found.val) \in set
        THEN scan_frontier(h, set, found.val)
        ELSE frontier

\* a variant of domain_for without the test `frontier == host.len()`
domain_for_unchecked(h, set) ==
    LET frontier == scan_frontier(h, set, Len(h))
        found == rfind_from(h, ".", frontier)
        start == IF IsSome(found) THEN found.val + 1 ELSE 0
    IN  Some(Slice(h, start, frontier))

domain_for(h, set) ==
    LET frontier == scan_frontier(h, set, Len(h))
        found == rfind_from(h, ".", frontier)
        start == IF IsSome(found) THEN found.val + 1 ELSE 0
    IN  IF frontier = Len(h) THEN None
        ELSE Some(Slice(h, start, frontier))

---------------------------------------------------------------------------
(* Parser                                                                  *)

\* Parser::is_white
is_white(c) == c = " " \/ c = "\t" \/ c = "\n" \/ c = "\r"

\* Parser::skip_white: the position it leaves
RECURSIVE skip_white(_, _)
skip_white(b, pos) ==
    IF pos < Len(b) /\ is_white(At(b, pos)) THEN skip_white(b, pos + 1) ELSE pos

\* Parser::expect: self.buf[self.pos] panics when pos is past the end
expect(b, pos, c) ==
    LET p == skip_white(b, pos)
    IN  IF p >= Len(b) THEN [kind |-> "panic", pos |-> p]
        ELSE IF At(b, p) = c THEN [kind |-> "Some", pos |-> p + 1]
        ELSE [kind |-> "None", pos |-> p]

\* the byte 0 that peek gives past the end of the buffer; no buffer holds it
Nul == "NUL"

\* Parser::peek
peek(b, pos) == IF pos < Len(b) THEN At(b, pos) ELSE Nul

\* the while loop of Parser::string: the position of the next quote.  Past the
\* end of the buffer peek is 0 at every position, so the loop goes on
\* incrementing pos and does not end (it would take 2^64 steps to overflow pos).
RECURSIVE scan_to_quote(_, _)
scan_to_quote(b, pos) ==
    IF peek(b, pos) = "\"" THEN Some(pos)
    ELSE IF pos >= Len(b) THEN Hang
    ELSE scan_to_quote(b, pos + 1)

\* Parser::string: (start, end) of the content, and the position after it
string(b, pos) ==
    LET open == expect(b, pos, "\"")
    IN  IF ~IsSome(open) THEN [kind |-> open.kind, pos |-> open.pos]
        ELSE LET start == open.pos
                 scanned == scan_to_quote(b, start)
             IN  IF ~IsSome(scanned) THEN [kind |-> scanned.kind, pos |-> start]
                 ELSE LET end == scanned.val
                          close == expect(b, end, "\"")
                      IN  IF ~IsSome(close) THEN [kind |-> close.kind, pos |-> close.pos]
                          ELSE [kind |-> "Some", pos |-> close.pos, range |-> <<start, end>>]

\* the statements of Parser::parse in order: a byte is expect(byte), "skip" is
\* skip_white(), "string" is string()
ParseSteps ==
    <<"{", "skip",
      "string", ":", "string", ",",
      "string", ":", "string", ",",
      "string", ":", "string", ",",
      "string", ":", "string", "}">>

\* the statements of Parser::parse from the i-th on, each `?` returning early;
\* ranges are the results of string() so far
RECURSIVE run_steps(_, _, _, _)
run_steps(b, pos, i, ranges) ==
    IF i > Len(ParseSteps) THEN [kind |-> "Some", ranges |-> ranges]
    ELSE IF ParseSteps[i] = "skip" THEN run_steps(b, skip_white(b, pos), i + 1, ranges)
    ELSE IF ParseSteps[i] = "string"
         THEN LET r == string(b, pos)
              IN  IF ~IsSome(r) THEN [kind |-> r.kind]
                  ELSE run_steps(b, r.pos, i + 1, Append(ranges, r.range))
    ELSE LET r == expect(b, pos, ParseSteps[i])
         IN  IF ~IsSome(r) THEN [kind |-> r.kind]
             ELSE run_steps(b, r.pos, i + 1, ranges)

\* which results of string() Parser::parse returns: name_val and value_val
NameValIndex == 4
ValueValIndex == 8

\* a variant of Parser::parse that returns name_key and value_key
parse_returning_keys(b) ==
    LET r == run_steps(b, 0, 1, <<>>)
    IN  IF IsSome(r)
        THEN Some([name |-> r.ranges[NameValIndex - 1], value |-> r.ranges[ValueValIndex - 1]])
        ELSE [kind |-> r.kind]

\* Parser::parse on a parser built with pos: 0
parse(b) ==
    LET r == run_steps(b, 0, 1, <<>>)
    IN  IF IsSome(r)
        THEN Some([name |-> r.ranges[NameValIndex], value |-> r.ranges[ValueValIndex]])
        ELSE [kind |-> r.kind]

\* buf_to_str
buf_to_str(b, range) == Slice(b, range[1], range[2])

---------------------------------------------------------------------------
(* u32 arithmetic.  A u32 is kept as two 16-bit halves <<hi, lo>>, its     *)
(* value being hi * 65536 + lo.                                            *)

Half == 256 * 256

U32(hi, lo) == <<hi, lo>>
U32Zero == U32(0, 0)

\* a + b: the wrapped sum and whether it overflowed
u32_add(a, b) ==
    LET lo == a[2] + b[2]
        hi == a[1] + b[1] + (lo \div Half)
    IN  [val |-> U32(hi % Half, lo % Half), overflow |-> hi >= Half]

\* a * 10 + d for a digit value d < 256: the wrapped result and whether the
\* multiplication or the addition overflowed
u32_mul10_add(a, d) ==
    LET lo == a[2] * 10 + d
        hi == a[1] * 10 + (lo \div Half)
    IN  [val |-> U32(hi % Half, lo % Half), overflow |-> hi >= Half]

\* a << 8: the bits shifted out are dropped
u32_shl8(a) == U32((a[1] * 256 + a[2] \div 256) % Half, (a[2] * 256) % Half)

\* a << n for n a multiple of 8 below 32
RECURSIVE u32_shl(_, _)
u32_shl(a, n) == IF n = 0 THEN a ELSE u32_shl(u32_shl8(a), n - 8)

\* a / 10 and a % 10
u32_divmod10(a) ==
    LET mid == (a[1] % 10) * Half + a[2]
    IN  [quot |-> U32(a[1] \div 10 + (mid \div 10) \div Half, (mid \div 10) % Half),
         rem |-> mid % 10]

Digits == <<"0", "1", "2", "3", "4", "5", "6", "7", "8", "9">>

\* the Display of a u32, as writeln!("{}") prints it
RECURSIVE u32_to_string(_)
u32_to_string(a) ==
    LET dm == u32_divmod10(a)
    IN  IF dm.quot = U32Zero THEN Digits[dm.rem + 1]
        ELSE u32_to_string(dm.quot) \o Digits[dm.rem + 1]

---------------------------------------------------------------------------
(* ipv4_to_u32                                                             *)

\* the printable ASCII bytes 32 (space) to 95 (_) and 97 (a) to 126 (~), in order
Ascii32 == " !\"#$%&'()*+,-./0123456789:;<=>?@ABCDEFGHIJKLMNOPQRSTUVWXYZ[\\]^_"
Ascii97 == "abcdefghijklmnopqrstuvwxyz{|}~"

\* the place of byte c in str, counted from 0
IndexIn(str, c) == CHOOSE i \in 0..(Len(str) - 1) : At(str, i) = c

\* *b as a number, for a printable ASCII byte
byte_value(c) ==
    CASE c = "0" -> 48 [] c = "1" -> 49 [] c = "2" -> 50 [] c = "3" -> 51
      [] c = "4" -> 52 [] c = "5" -> 53 [] c = "6" -> 54 [] c = "7" -> 55
      [] c = "8" -> 56 [] c = "9" -> 57 [] c = "." -> 46
      [] OTHER -> IF \E i \in 0..(Len(Ascii32) - 1) : At(Ascii32, i) = c
                  THEN 32 + IndexIn(Ascii32, c)
                  ELSE 97 + IndexIn(Ascii97, c)

\* a variant of shifts in little-endian order
shifts_reversed == <<0, 8, 16, 24>>

\* let shifts: [u32; 4] = [24, 16, 8, 0]
shifts == <<24, 16, 8, 0>>

\* ip += octet << shifts[curr_octet].  Indexing shifts past its end panics in
\* every build; the addition panics on overflow when checks is set and wraps
\* otherwise.
add_octet(st, checks) ==
    IF st.curr_octet >= Len(shifts) THEN Panic
    ELSE LET sum == u32_add(st.ip, u32_shl(st.octet, shifts[st.curr_octet + 1]))
         IN  IF sum.overflow /\ checks THEN Panic
             ELSE Some([ip |-> sum.val, octet |-> st.octet, curr_octet |-> st.curr_octet])

\* octet = octet * 10 + (*b - b'0') as u32.  The u8 subtraction and the u32
\* arithmetic panic on overflow when checks is set and wrap otherwise.
add_digit(st, c, checks) ==
    LET under == byte_value(c) < 48
        digit == (byte_value(c) - 48) % 256
        acc == u32_mul10_add(st.octet, digit)
    IN  IF (under \/ acc.overflow) /\ checks THEN Panic
        ELSE Some([ip |-> st.ip, octet |-> acc.val, curr_octet |-> st.curr_octet])

\* the for loop of ipv4_to_u32 from byte i on, then the last octet
RECURSIVE ipv4_loop(_, _, _, _)
ipv4_loop(s, i, st, checks) ==
    IF i >= Len(s)
    THEN LET last == add_octet(st, checks)
         IN  IF IsSome(last) THEN Some(last.val.ip) ELSE last
    ELSE IF At(s, i) = "."
         THEN LET r == add_octet(st, checks)
              IN  IF ~IsSome(r) THEN r
                  ELSE ipv4_loop(s, i + 1,
                                 [ip |-> r.val.ip, octet |-> U32Zero,
                                  curr_octet |-> r.val.curr_octet + 1], checks)
    ELSE LET r == add_digit(st, At(s, i), checks)
         IN  IF ~IsSome(r) THEN r ELSE ipv4_loop(s, i + 1, r.val, checks)

\* ipv4_to_u32 in a build with (debug) or without (release) overflow checks:
\* Some(ip) when it returns, Panic when it aborts
ipv4_to_u32(s, checks) ==
    ipv4_loop(s, 0, [ip |-> U32Zero, octet |-> U32Zero, curr_octet |-> 0], checks)

---------------------------------------------------------------------------
(* Inputs of the domain extractor.                                         *)

HostAlphabet == {"a", "b", "."}
Hosts == StringsUpTo(HostAlphabet, MaxHostLen)

\* lines of a suffix file: entries, a blank line, a whitespace line, a comment
TldLines == {"a", "b", "a.b", "b.a", "b.b", "a.a", ".a", "a.", "", " \t" \o VerticalTab, "//a"}
TldSets == {parse_tld_file(f) : f \in SeqsUpTo(TldLines, MaxTldLines)}

BigpondHost == "cpe-1-120-175-74.4cbp-r-037.cha.qld.bigpond.net.au"
NamedHosts == {"example.com", "example.co.uk", "co.uk", "uk", "foo.example.com",
               ".com", "a..com", "com", BigpondHost}
NamedTldSets == {parse_tld_file(f) :
                   f \in {<<"// suffixes", "com">>, <<"uk", "co">>, <<"uk", "", "co.uk">>,
                          <<"au", "net">>, <<"au", "net.au">>, <<"com", "uk", "co.uk">>}}

DomainInputs == (Hosts \X TldSets) \cup (NamedHosts \X NamedTldSets)

---------------------------------------------------------------------------
(* Inputs of the record parser: flat JSON objects of four string pairs,    *)
(* and buffers that deviate from that shape.                               *)

Quoted(str) == "\"" \o str \o "\""

\* the tokens of an object whose pairs are f[1]:f[2], f[3]:f[4], ...
RECURSIVE PairTokens(_, _)
PairTokens(f, i) ==
    IF i > Len(f) THEN <<>>
    ELSE (IF i = 1 THEN <<>> ELSE <<",">>)
         \o <<Quoted(f[i]), ":", Quoted(f[i + 1])>> \o PairTokens(f, i + 2)

Tokens(f) == <<"{">> \o PairTokens(f, 1) \o <<"}">>

\* the tokens in order, with gap before the token numbered where, or before
\* every token when where is 0
RECURSIVE Render(_, _, _, _)
Render(tokens, gap, where, i) ==
    IF i > Len(tokens) THEN ""
    ELSE (IF where = 0 \/ where = i THEN gap ELSE "") \o tokens[i]
         \o Render(tokens, gap, where, i + 1)

\* tokens without the i-th
Without(tokens, i) == SubSeq(tokens, 1, i - 1) \o SubSeq(tokens, i + 1, Len(tokens))

WhiteBytes == {" ", "\t", "\n", "\r"}
Gaps == StringsUpTo(WhiteBytes, MaxGap)
Trailers == {"", "\n"}

KeyTuples == {<<"timestamp", "name", "type", "value">>, <<"", "value", "", "name">>}
Discarded == {"", "t:1,"}
Captured == {<<"1.2.3.4", "foo.example.com">>, <<"", "">>, <<"{,:}", "a b">>,
             <<"1.2.3.4", "">>, <<"", " x\t">>}

FieldTuples ==
    {<<k[1], v1, k[2], c[1], k[3], v3, k[4], c[2]>> :
        k \in KeyTuples, v1 \in Discarded, v3 \in Discarded, c \in Captured}

NumTokens == Len(Tokens(<<"", "", "", "", "", "", "", "">>))

ObjectSamples ==
    {[text |-> Render(Tokens(f), gap, where, 1) \o trailer, shape |-> "object",
      name |-> f[4], value |-> f[8]] :
        f \in FieldTuples, gap \in Gaps, where \in 0..NumTokens, trailer \in Trailers}

Deviating(text, shape) == [text |-> text, shape |-> shape, name |-> "", value |-> ""]

BaseFields == {<<"timestamp", "1", "name", "1.2.3.4", "type", "a", "value", "a.com">>,
               <<"", "", "", "", "", "", "", "">>}
BaseGaps == {"", " "}

\* a proper prefix of an object that ends at its closing brace, as it stands or
\* followed by a line terminator
TruncatedSamples ==
    UNION {LET text == Render(Tokens(f), gap, 0, 1)
           IN  {Deviating(Slice(text, 0, n) \o trailer, "truncated") :
                   n \in 0..(Len(text) - 1), trailer \in Trailers} :
           f \in BaseFields, gap \in BaseGaps}

\* an object with one token left out: a delimiter or a whole string
MissingTokenSamples ==
    {Deviating(Render(Without(Tokens(f), i), gap, 0, 1) \o trailer, "missing") :
        f \in BaseFields, gap \in BaseGaps, i \in 1..NumTokens, trailer \in Trailers}

\* an object of fewer than four pairs
FewerFieldsSamples ==
    {Deviating(Render(Tokens(SubSeq(f, 1, 2 * n)), gap, 0, 1) \o trailer, "fewer") :
        f \in BaseFields, gap \in BaseGaps, n \in 0..3, trailer \in Trailers}

\* every short buffer over the bytes the parser tells apart (the shortest
\* object of four pairs has 25 bytes)
ShortAlphabet == {"{", "\"", ":", ",", "}", " ", "\n", "a"}
ShortSamples == {Deviating(text, "short") : text \in StringsUpTo(ShortAlphabet, MaxShort)}

DeviatingSamples ==
    TruncatedSamples \cup MissingTokenSamples \cup FewerFieldsSamples \cup ShortSamples

ParseSamples == ObjectSamples \cup DeviatingSamples

NoSample == Deviating("", "none")

---------------------------------------------------------------------------
(* Inputs of the IPv4 encoder.                                             *)

RECURSIVE JoinGroups(_, _)
JoinGroups(groups, i) ==
    IF i > Len(groups) THEN ""
    ELSE IF i = Len(groups) THEN groups[i]
    ELSE groups[i] \o "." \o JoinGroups(groups, i + 1)

IpGroups == {"0", "1", "192", "255", "256", "07"}
NamedAddrs == {"192.168.32.1", "1.2.3.4", "1.120.175.74", "001.002.003.004", "999.1.1.1",
               "1.2.3", "1.2.3.4.5", "255.256.0.0", "4294967295", "4294967296",
               "", ".", "1..2", "1.2.3.4.", "1-2", "::1"}
IpAddrs == {JoinGroups(q, 1) : q \in SeqsUpTo(IpGroups, MaxGroups)} \cup NamedAddrs

---------------------------------------------------------------------------
(* Inputs of main: the lines of the input file, as read_line returns them  *)
(* (with their terminator, which the last line of a file may lack).        *)

Record(name, value) ==
    Render(Tokens(<<"timestamp", "1627467007", "name", name, "type", "cname",
                    "value", value>>), "", 0, 1)

GoodLine == Record("1.2.3.4", "foo.example.com") \o "\n"
SpacedLine ==
    Render(Tokens(<<"timestamp", "1", "name", "192.168.32.1", "type", "a",
                    "value", "www.example.co.uk">>), " ", 0, 1) \o "\r\n"
LastLine == Record("1.2.3.4", "bar.com")
NoDomainLine == Record("1.2.3.4", "localhost") \o "\n"
EmptyDomainLine == Record("1.2.3.4", ".com") \o "\n"
FiveGroupsLine == Record("1.2.3.4.5", "a.com") \o "\n"
UnicodeLine == Record("1.2.3.4", "caf\\u00e9.com") \o "\n"
UnicodeJunkLine == "\\u0041\n"
BlankLine == "\n"
InStringLine == "{\"timestamp\":\"1\",\"name\":\"1.2\n"
AfterCommaLine == "{\"timestamp\":\"1\",\n"
FewerFieldsLine == "{\"name\":\"1.2.3.4\"}\n"
MissingColonLine ==
    Render(Without(Tokens(<<"timestamp", "1", "name", "1.2.3.4", "type", "a",
                            "value", "a.com">>), 3), "", 0, 1) \o "\n"

WellFormedLines == {GoodLine, SpacedLine, LastLine, NoDomainLine, EmptyDomainLine,
                    FiveGroupsLine}
UnicodeLines == {UnicodeLine, UnicodeJunkLine}
\* lines that are not the expected object of four pairs and hold no \u
MalformedLines == {BlankLine, InStringLine, AfterCommaLine, FewerFieldsLine,
                   MissingColonLine}
Lines == WellFormedLines \cup UnicodeLines \cup MalformedLines

MainTldSets == {parse_tld_file(f) :
                  f \in {<<"// public suffixes", "", "com", "uk", "co.uk">>, <<"com">>}}

---------------------------------------------------------------------------
(* The domain extractor applied to one input.                              *)

IdleDomain == host = "" /\ domain = None
IdleParser == buf = "" /\ sample = NoSample /\ rdns = None
IdleIp == addr = "" /\ ip = None
IdleMain ==
    /\ consumed = <<>> /\ handed = <<>> /\ stdout = <<>> /\ rejected = <<>>
    /\ stderr_lines = <<>> /\ summary = None /\ num_lines = 0 /\ num_rejected = 0

InitDomain ==
    /\ pc = "call"
    /\ \E in \in DomainInputs : host = in[1] /\ tld_set = in[2]
    /\ domain = None
    /\ overflow_checks = FALSE
    /\ IdleParser /\ IdleIp /\ IdleMain

DomainFor ==
    /\ pc = "call"
    /\ domain' = domain_for(host, tld_set)
    /\ pc' = "returned"
    /\ UNCHANGED <<tld_set, host, buf, sample, rdns, addr, ip, overflow_checks, consumed,
                   handed, stdout, rejected, stderr_lines, summary, num_lines, num_rejected>>

NextDomain == DomainFor

SpecDomain == InitDomain /\ [][NextDomain]_vars

---------------------------------------------------------------------------
(* The record parser applied to one buffer.                                *)

\* where a call is once it is over
After(outcome) ==
    IF outcome.kind = "panic" THEN "panicked"
    ELSE IF outcome.kind = "hang" THEN "hung"
    ELSE "returned"

InitParser ==
    /\ pc = "call"
    /\ sample \in ParseSamples
    /\ buf = sample.text
    /\ rdns = None
    /\ tld_set = {}
    /\ overflow_checks = FALSE
    /\ IdleDomain /\ IdleIp /\ IdleMain

Parse ==
    /\ pc = "call"
    /\ rdns' = parse(buf)
    /\ pc' = After(rdns')
    /\ UNCHANGED <<tld_set, host, domain, buf, sample, addr, ip, overflow_checks, consumed,
                   handed, stdout, rejected, stderr_lines, summary, num_lines, num_rejected>>

NextParser == Parse

SpecParser == InitParser /\ [][NextParser]_vars

---------------------------------------------------------------------------
(* The IPv4 encoder applied to one address, in either build.               *)

InitIp ==
    /\ pc = "call"
    /\ addr \in IpAddrs
    /\ overflow_checks \in BOOLEAN
    /\ ip = None
    /\ tld_set = {}
    /\ IdleDomain /\ IdleParser /\ IdleMain

Ipv4ToU32 ==
    /\ pc = "call"
    /\ ip' = ipv4_to_u32(addr, overflow_checks)
    /\ pc' = After(ip')
    /\ UNCHANGED <<tld_set, host, domain, buf, sample, rdns, addr, overflow_checks, consumed,
                   handed, stdout, rejected, stderr_lines, summary, num_lines, num_rejected>>

NextIp == Ipv4ToU32

SpecIp == InitIp /\ [][NextIp]_vars

---------------------------------------------------------------------------
(* main: the loop over the input lines.                                    *)

\* a variant of contains that looks at the start of the line only: starts_with
contains_at_start(line, pat) == Len(line) >= Len(pat) /\ Slice(line, 0, Len(pat)) = pat

\* line.contains(pat)
contains(line, pat) ==
    \E i \in 0..(Len(line) - Len(pat)) : Slice(line, i, i + Len(pat)) = pat

\* r"\u"
UnicodeMarker == "\\u"

\* writeln!(stdout, "{},{}", ip, domain), or the panic of ipv4_to_u32
emit(found, packed) ==
    IF ~IsSome(packed) THEN [kind |-> packed.kind, out |-> <<>>, err |-> <<>>]
    ELSE [kind |-> "Some", err |-> <<>>,
          out |-> <<u32_to_string(packed.val) \o "," \o found.val \o "\n">>]

\* if let Some(domain) = domain_for(..): the address is encoded only then
with_domain(line, positions, found, checks) ==
    IF ~IsSome(found) THEN [kind |-> "Some", out |-> <<>>, err |-> <<>>]
    ELSE emit(found, ipv4_to_u32(buf_to_str(line, positions.name), checks))

\* match parser.parse(): the diagnostic on None; a panic or an endless loop in
\* the parser ends the turn
with_parsed(line, parsed, set, checks) ==
    IF parsed.kind = "None" THEN [kind |-> "Some", out |-> <<>>, err |-> <<line>>]
    ELSE IF ~IsSome(parsed) THEN [kind |-> parsed.kind, out |-> <<>>, err |-> <<>>]
    ELSE with_domain(line, parsed.val,
                     domain_for(buf_to_str(line, parsed.val.value), set), checks)

\* the body of the loop after the \u test, for a line handed to the parser:
\* what it writes and whether it goes on
process(line, set, checks) == with_parsed(line, parse(line), set, checks)

Init ==
    /\ pc = "loop"
    /\ tld_set \in MainTldSets
    /\ overflow_checks \in BOOLEAN
    /\ IdleMain
    /\ IdleDomain /\ IdleParser /\ IdleIp

\* what a turn that handed its line to the parser wrote, and where it left main
Writes(done) ==
    /\ stdout' = stdout \o done.out
    /\ stderr_lines' = stderr_lines \o done.err
    /\ pc' = IF IsSome(done) THEN "loop" ELSE After(done)

\* one turn of the loop: read_line returned line
ReadLine(line) ==
    /\ pc = "loop"
    /\ Len(consumed) < MaxLines
    /\ consumed' = Append(consumed, line)
    /\ IF contains(line, UnicodeMarker)
       THEN /\ rejected' = Append(rejected, line)
            /\ num_rejected' = num_rejected + 1
            /\ UNCHANGED <<pc, handed, stdout, stderr_lines, num_lines>>
       ELSE /\ num_lines' = num_lines + 1
            /\ handed' = Append(handed, line)
            /\ Writes(process(line, tld_set, overflow_checks))
            /\ UNCHANGED <<rejected, num_rejected>>
    /\ UNCHANGED <<tld_set, host, domain, buf, sample, rdns, addr, ip, overflow_checks, summary>>

\* read_line returned 0: the loop ends and the summary is printed
EndOfInput ==
    /\ pc = "loop"
    /\ summary' = Some([lines |-> num_lines, rejected |-> num_rejected])
    /\ pc' = "done"
    /\ UNCHANGED <<tld_set, host, domain, buf, sample, rdns, addr, ip, overflow_checks,
                   consumed, handed, stdout, rejected, stderr_lines, num_lines, num_rejected>>

Next == (\E line \in Lines : ReadLine(line)) \/ EndOfInput

Spec == Init /\ [][Next]_vars

---------------------------------------------------------------------------
(* Reference notions for the claims about domain_for: the labels of a      *)
(* host, computed by splitting at the dots from the left.                  *)

HasDot(h) == \E i \in 0..(Len(h) - 1) : At(h, i) = "."

RECURSIVE Labels(_)
Labels(h) ==
    IF ~HasDot(h) THEN <<h>>
    ELSE LET first == CHOOSE i \in 0..(Len(h) - 1) :
                          At(h, i) = "." /\ \A j \in 0..(i - 1) : At(h, j) # "."
         IN  <<Slice(h, 0, first)>> \o Labels(Slice(h, first + 1, Len(h)))

\* labels from..to of ls joined by dots
RECURSIVE JoinLabels(_, _, _)
JoinLabels(ls, from, to) ==
    IF from > to THEN ""
    ELSE IF from = to THEN ls[from]
    ELSE ls[from] \o "." \o JoinLabels(ls, from + 1, to)

\* the text made of the last j labels of h
TailOf(h, j) == LET ls == Labels(h) IN JoinLabels(ls, Len(ls) - j + 1, Len(ls))

\* the j-th label of h counted from the right
LabelFromRight(h, j) == LET ls == Labels(h) IN ls[Len(ls) - j + 1]

NumLabels(h) == Len(Labels(h))

Returned == pc # "call"

\* C2 (as stated): when the labels right of a label L are each a member of the
\* suffix set and L is not, domain_for returns L; so "example.co.uk" with
\* {"uk","co"} gives "example" and the bigpond host with {"au","net"} gives
\* "bigpond".
C2_PerLabelAbsorption ==
    Returned =>
        /\ \A j \in 1..(NumLabels(host) - 1) :
              (/\ \A i \in 1..j : LabelFromRight(host, i) \in tld_set
               /\ LabelFromRight(host, j + 1) \notin tld_set)
              => domain = Some(LabelFromRight(host, j + 1))
        /\ (host = "example.co.uk" /\ tld_set = {"uk", "co"}) => domain = Some("example")
        /\ (host = BigpondHost /\ tld_set = {"au", "net"}) => domain = Some("bigpond")

\* C2 (amended): at each step the whole text right of the most recently found
\* dot, up to the end of the host, is tested.  When the tails made of the last
\* 1..j labels are each a member of the suffix set and the tail made of the last
\* j+1 labels is not, domain_for returns the label j+1 from the right; so
\* "example.co.uk" with {"uk","co.uk"} gives "example" and the bigpond host with
\* {"au","net.au"} gives "bigpond".
C2_WholeTailAbsorption ==
    Returned =>
        /\ \A j \in 1..(NumLabels(host) - 1) :
              (/\ \A i \in 1..j : TailOf(host, i) \in tld_set
               /\ TailOf(host, j + 1) \notin tld_set)
              => domain = Some(LabelFromRight(host, j + 1))
        /\ (host = "example.co.uk" /\ tld_set = {"uk", "co.uk"}) => domain = Some("example")
        /\ (host = BigpondHost /\ tld_set = {"au", "net.au"}) => domain = Some("bigpond")

\* a host of three labels whose two-label tail was absorbed
C2_Witness ==
    /\ Returned
    /\ host = "example.co.uk" /\ tld_set = {"uk", "co.uk"}
    /\ domain = Some("example")

\* C6: domain_for returns None for a host with no '.', even when the host is a
\* member of the suffix set, and for a host whose final label is not a member.
C6_NoDotOrUnknownFinalLabel ==
    Returned =>
        /\ ~HasDot(host) => domain = None
        /\ LabelFromRight(host, 1) \notin tld_set => domain = None

\* a host without a dot that is itself a listed suffix
C6_Witness ==
    /\ Returned
    /\ ~HasDot(host) /\ host # "" /\ host \in tld_set
    /\ domain = None

\* C7: domain_for returns None when the host is nothing but a public suffix:
\* the host itself and every tail of it are members of the suffix set.
C7_SuffixOnlyHostIsAbsent ==
    (/\ Returned
     /\ HasDot(host)
     /\ \A j \in 1..NumLabels(host) : TailOf(host, j) \in tld_set)
    => domain = None

\* C10: a returned domain is a single non-empty label.
C10_DomainIsNonEmptyLabel ==
    (Returned /\ IsSome(domain)) => (Len(domain.val) >= 1 /\ ~HasDot(domain.val))

---------------------------------------------------------------------------
(* Claims about the record parser (SpecParser).                            *)

\* C1: on every buffer that deviates from the expected sequence of four
\* pairs (truncated, the empty buffer and a whitespace-only line included; the
\* end of the buffer inside a string; a missing delimiter; fewer than four
\* fields) Parser::parse returns None: it does not crash and gives no positions.
C1_DeviatingBufferGivesNone ==
    (pc # "call" /\ sample.shape # "object") => (pc = "returned" /\ rdns = None)

\* C3: on every well-formed object of four string pairs, whatever the white
\* space between its tokens and whatever its keys, Parser::parse succeeds and
\* the returned ranges slice the buffer to the 2nd and the 4th pair's values.
C3_RoundTrip ==
    (pc # "call" /\ sample.shape = "object") =>
        /\ pc = "returned"
        /\ IsSome(rdns)
        /\ buf_to_str(buf, rdns.val.name) = sample.name
        /\ buf_to_str(buf, rdns.val.value) = sample.value

\* an object with white space before every token, keys that are not
\* "name"/"value" in the 2nd and 4th places, and distinct non-empty values
C3_Witness ==
    /\ pc = "returned"
    /\ sample.shape = "object" /\ sample.name = "{,:}" /\ sample.value = "a b"
    /\ Len(buf) > Len(Render(Tokens(<<"", "", "value", "{,:}", "", "", "name", "a b">>),
                             "", 0, 1)) + NumTokens
    /\ IsSome(rdns)
    /\ buf_to_str(buf, rdns.val.name) = "{,:}"

---------------------------------------------------------------------------
(* Claims about the IPv4 encoder (SpecIp).                                 *)

DigitBytes == {Digits[i] : i \in 1..Len(Digits)}

\* the number a short string of digits denotes
RECURSIVE DecimalValue(_)
DecimalValue(str) ==
    IF str = "" THEN 0
    ELSE DecimalValue(Slice(str, 0, Len(str) - 1)) * 10
         + (CHOOSE d \in 0..9 : Digits[d + 1] = At(str, Len(str) - 1))

IsOctetGroup(g) ==
    /\ Len(g) \in 1..3
    /\ \A i \in 0..(Len(g) - 1) : At(g, i) \in DigitBytes
    /\ DecimalValue(g) <= 255

\* o0.o1.o2.o3, each octet of one to three digits and at most 255
IsDottedQuad(str) ==
    /\ NumLabels(str) = 4
    /\ \A i \in 1..4 : IsOctetGroup(Labels(str)[i])

OctetOf(str, i) == DecimalValue(Labels(str)[i])

\* C4: for a well-formed dotted quad ipv4_to_u32 returns
\* o0*2^24 + o1*2^16 + o2*2^8 + o3 (in halves: o0*256+o1 and o2*256+o3), in
\* either build; "192.168.32.1" gives 3232243713.
C4_NetworkOrderPacking ==
    (pc # "call" /\ IsDottedQuad(addr)) =>
        /\ ip = Some(U32(OctetOf(addr, 1) * 256 + OctetOf(addr, 2),
                         OctetOf(addr, 3) * 256 + OctetOf(addr, 4)))
        /\ addr = "192.168.32.1" => u32_to_string(ip.val) = "3232243713"

C4_Witness ==
    /\ pc = "returned"
    /\ addr = "192.168.32.1"
    /\ IsSome(ip) /\ u32_to_string(ip.val) = "3232243713"

\* C5: on every string of digits and dots, whatever the number of groups and
\* the size of the octets, ipv4_to_u32 returns a value: it never aborts.
C5_NeverFails ==
    (pc # "call" /\ \A i \in 0..(Len(addr) - 1) : At(addr, i) \in DigitBytes \cup {"."})
    => (pc = "returned" /\ IsSome(ip))

---------------------------------------------------------------------------
(* Claims about main (Spec).                                               *)

\* a backslash followed by a u, somewhere in line
HasUnicodeEscape(line) ==
    \E i \in 1..(Len(line) - 1) : SubSeq(line, i, i) = "\\" /\ SubSeq(line, i + 1, i + 1) = "u"
HasNoUnicodeEscape(line) == ~HasUnicodeEscape(line)

Last(q) == q[Len(q)]

\* the rejects output is the consumed lines that hold \u, in order, and the
\* lines handed to the parser are the others
C8_Outputs ==
    /\ rejected = SelectSeq(consumed, HasUnicodeEscape)
    /\ handed = SelectSeq(consumed, HasNoUnicodeEscape)
    /\ num_rejected = Len(rejected)

\* a turn that reads a line holding \u copies it to the rejects output and
\* neither parses it nor writes to the primary output; any other step leaves
\* the rejects output alone
C8_Step ==
    IF consumed' # consumed /\ HasUnicodeEscape(Last(consumed'))
    THEN /\ rejected' = Append(rejected, Last(consumed'))
         /\ UNCHANGED <<handed, stdout, stderr_lines, num_lines, pc>>
    ELSE rejected' = rejected

\* C8: after any sequence of input lines the rejects output is exactly the
\* lines read that contain \u, verbatim and in order; such a line is never
\* handed to the parser and never produces a line of primary output, and a line
\* without \u is never written to the rejects output.
C8_UnicodeDiversion == []C8_Outputs /\ [][C8_Step]_vars

\* a \u line read between two lines that were parsed
C8_Witness ==
    /\ consumed = <<GoodLine, UnicodeLine, NoDomainLine>>
    /\ rejected = <<UnicodeLine>>
    /\ handed = <<GoodLine, NoDomainLine>>
    /\ stdout = <<"16909060,example\n">>

\* C9: a line that fails record parsing never aborts the run: reading a
\* malformed line (blank and truncated lines included) leads only to a
\* diagnostic, writes nothing to the primary or the rejects output, and leaves
\* main in its loop, from which it reaches the end of input and the summary.
C9_MalformedLineIsSkipped ==
    [][(consumed' # consumed /\ Last(consumed') \in MalformedLines) =>
          /\ pc' = "loop"
          /\ stderr_lines' = Append(stderr_lines, Last(consumed'))
          /\ stdout' = stdout
          /\ rejected' = rejected]_vars

====
